---------------------------- MODULE Spec2Model ----------------------------
(***************************************************************************)
(* Model of examples/pgvector/pgvector.ipynb: partition e-mails into       *)
(* elements, embed each element, bulk-insert the rows into the             *)
(* unstructured_elements table, then run the category-filtered             *)
(* nearest-neighbour query and the time-decayed query.                     *)
(*                                                                         *)
(* Units.  Vector coordinates and distances are integers counting          *)
(* hundredths.  Timestamps count half days.  Values of exp() are fixed     *)
(* point numbers counting millionths.  Optional values (a nullable column, *)
(* an attribute that may be unset) are <<>> for absent and <<v>> for v.    *)
(***************************************************************************)
EXTENDS Integers, Sequences, FiniteSets

(***************************************************************************)
(* Bounds of the model.                                                    *)
(***************************************************************************)
\* Longest batch of elements drawn freely from RawElements.
MaxBatch == 2
\* Number of times the notebook is run against the same database.
MaxRuns == 2
\* Most rows the table is let to hold: no run starts that could exceed it.
MaxRows == 4
\* Vector dimensionality used for the table column (1536 in the notebook).
Dim == 2

ADA_TOKEN_COUNT == Dim

NULL == <<>>

Some(v) == <<v>>

(***************************************************************************)
(* The embedding service.  Every text lies on the line through (3, 4), so  *)
(* that all pairwise L2 distances are whole hundredths.                    *)
(***************************************************************************)
Pad(v, n) == [j \in 1..n |-> IF j <= Len(v) THEN v[j] ELSE 0]

Direction(k) == Pad(<<3 * k, 4 * k>>, ADA_TOKEN_COUNT)

embed_query(t) ==
    CASE t = "email"            -> Direction(0)
      [] t = "Violets are blue" -> Direction(1)
      [] t = "Roses are red"    -> Direction(2)
      [] t = "s1"               -> Direction(2)
      [] t = "s2"               -> Direction(10)
      [] t = "s3"               -> Direction(1)
      [] t = "s4"               -> Direction(6)
      [] t = "s5"               -> Direction(4)

\* What one call of the service can hand back: the vector of the text, or a
\* vector of another dimensionality (a differently configured model).
EmbedReturns(t) == {embed_query(t), Append(embed_query(t), 0)}

(***************************************************************************)
(* Output of partition_email over the directory: text, category, date.     *)
(***************************************************************************)
Categories == {"NarrativeText", "Other"}

Dates == {NULL, Some(2), Some(3)}

RawElements ==
    [text : {"Violets are blue", "Roses are red"}, category : Categories, date : Dates]

Raw(t, c) == [text |-> t, category |-> c, date |-> Some(0)]

ScenarioDocs ==
    << Raw("s1", "NarrativeText"), Raw("s2", "NarrativeText"), Raw("s3", "Other"),
       Raw("s4", "NarrativeText"), Raw("s5", "Other") >>

Directories ==
    UNION {[1..n -> RawElements] : n \in 0..MaxBatch} \cup {ScenarioDocs}

\* Inputs of the queries.
QueryTexts == {"email", "Violets are blue"}

Limits == {1, 2, 5}

Nows == {4, 5}

VARIABLES
    pc,            \* the cell the run is at, or "failed"
    runs,          \* runs of the notebook started so far
    docs,          \* what partitioning the directory yields
    elements,      \* cell 5a18fd82
    idx,           \* position of the embedding loop
    items_to_add,  \* cell a47c99d3
    table,         \* committed rows of unstructured_elements, in insertion order
    id_seq,        \* next value of the primary-key sequence
    error,         \* the exception that ended the run, or "none"
    query,         \* parameters of the last query
    result         \* rows the last query returned

vars == <<pc, runs, docs, elements, idx, items_to_add, table, id_seq, error, query, result>>

NoQuery == [kind |-> "none"]

Init ==
    /\ pc = "partition"
    /\ runs = 1
    /\ docs \in Directories
    /\ elements = <<>>
    /\ idx = 1
    /\ items_to_add = <<>>
    /\ table = <<>>
    /\ id_seq = 1
    /\ error = "none"
    /\ query = NoQuery
    /\ result = <<>>

Fail(e) ==
    /\ pc' = "failed"
    /\ error' = e

(***************************************************************************)
(* Cell 5a18fd82: elements.extend(partition_email(...)) for every .eml.    *)
(***************************************************************************)
Partition ==
    /\ pc = "partition"
    /\ \/ /\ elements' = [j \in 1..Len(docs) |->
                            [text |-> docs[j].text, category |-> docs[j].category,
                             date |-> docs[j].date, embedding |-> NULL]]
          /\ pc' = "embed"
          /\ UNCHANGED error
       \/ /\ Fail("PartitionError")
          /\ UNCHANGED elements
    /\ UNCHANGED <<runs, docs, idx, items_to_add, table, id_seq, query, result>>

(***************************************************************************)
(* Cell 2e6537d3: one iteration of the embedding loop, and its exit.       *)
(***************************************************************************)
EmbedOne ==
    /\ pc = "embed"
    /\ idx <= Len(elements)
    /\ \/ /\ \E v \in EmbedReturns(elements[idx].text) :
                elements' = [elements EXCEPT ![idx].embedding = Some(v)]
          /\ idx' = idx + 1
          /\ UNCHANGED <<pc, error>>
       \/ /\ Fail("EmbeddingError")
          /\ UNCHANGED <<elements, idx>>
    /\ UNCHANGED <<runs, docs, items_to_add, table, id_seq, query, result>>

EmbedDone ==
    /\ pc = "embed"
    /\ idx > Len(elements)
    /\ pc' = "build"
    /\ UNCHANGED <<runs, docs, elements, idx, items_to_add, table, id_seq, error, query, result>>

(***************************************************************************)
(* Cell a47c99d3: one Element object per element; id is left to the store. *)
(***************************************************************************)
Element(e) ==
    [id |-> NULL, text |-> e.text, category |-> e.category,
     embedding |-> e.embedding[1], date |-> e.date]

BuildItems ==
    /\ pc = "build"
    /\ items_to_add' = [j \in 1..Len(elements) |-> Element(elements[j])]
    /\ pc' = "insert"
    /\ UNCHANGED <<runs, docs, elements, idx, table, id_seq, error, query, result>>

(***************************************************************************)
(* Cell 5d6bbf43: session.add_all(items_to_add); session.commit().         *)
(***************************************************************************)
\* Variant: a column declared without its dimensionality takes any vector.
VectorAccepts_Any(v) == Len(v) >= 0

\* Column(Vector(ADA_TOKEN_COUNT)) accepts vectors of that dimensionality only.
VectorAccepts(v) == Len(v) = ADA_TOKEN_COUNT

\* Variant: ids numbered from 1 within each batch.
AssignId_PerBatch(item, j) == [item EXCEPT !.id = Some(j)]

\* id = Column(Integer, primary_key=True): the j-th row takes the j-th next
\* value of the sequence.
AssignId(item, j) == [item EXCEPT !.id = Some(id_seq + j - 1)]

Flushed == [j \in 1..Len(items_to_add) |-> AssignId(items_to_add[j], j)]

Commit ==
    /\ table' = table \o Flushed
    /\ id_seq' = id_seq + Len(items_to_add)
    /\ pc' = "query"
    /\ UNCHANGED error

\* Variant: each row committed on its own, so the rows the store accepted
\* stay when the run fails.
Rollback_KeepsAccepted ==
    /\ Fail("StoreError")
    /\ table' = table \o SelectSeq(Flushed, LAMBDA r : VectorAccepts(r.embedding))
    /\ id_seq' = id_seq + Len(items_to_add)

\* The transaction is rolled back; values drawn from the sequence are not.
Rollback ==
    /\ Fail("StoreError")
    /\ table' = table
    /\ id_seq' \in {id_seq, id_seq + Len(items_to_add)}

AddAllCommit ==
    /\ pc = "insert"
    /\ \/ /\ \A j \in 1..Len(items_to_add) : VectorAccepts(items_to_add[j].embedding)
          /\ Commit
       \/ Rollback
    /\ UNCHANGED <<runs, docs, elements, idx, items_to_add, query, result>>

(***************************************************************************)
(* ORDER BY key LIMIT k over the candidate rows S.  The statement names no *)
(* further sort key, so rows with equal keys may come back in any order:   *)
(* the operator yields every sequence the store may return.                *)
(***************************************************************************)
\* Variant: no ORDER BY, the first k candidates in insertion order.
RECURSIVE OrderByLimit_Unordered(_, _, _)
OrderByLimit_Unordered(key, S, k) ==
    IF k = 0 \/ S = {}
    THEN {<<>>}
    ELSE LET m == CHOOSE x \in S : \A y \in S : x <= y
         IN  { <<m>> \o t : t \in OrderByLimit_Unordered(key, S \ {m}, k - 1) }

\* Variant: the sort runs the other way, largest key first.
RECURSIVE OrderByLimit_Reversed(_, _, _)
OrderByLimit_Reversed(key, S, k) ==
    IF k = 0 \/ S = {}
    THEN {<<>>}
    ELSE UNION { { <<m>> \o t : t \in OrderByLimit_Reversed(key, S \ {m}, k - 1) } :
                 m \in {x \in S : \A y \in S : key[x] >= key[y]} }

RECURSIVE OrderByLimit(_, _, _)
OrderByLimit(key, S, k) ==
    IF k = 0 \/ S = {}
    THEN {<<>>}
    ELSE UNION { { <<m>> \o t : t \in OrderByLimit(key, S \ {m}, k - 1) } :
                 m \in {x \in S : \A y \in S : key[x] <= key[y]} }

(***************************************************************************)
(* Element.embedding.l2_distance(vector): the <-> operator of pgvector.    *)
(***************************************************************************)
RECURSIVE SumSquares(_, _, _)
SumSquares(a, b, n) ==
    IF n = 0 THEN 0 ELSE (a[n] - b[n]) * (a[n] - b[n]) + SumSquares(a, b, n - 1)

Sqrt(n) == CHOOSE r \in 0..n : r * r <= n /\ n < (r + 1) * (r + 1)

l2_distance(a, b) == Sqrt(SumSquares(a, b, Len(a)))

(***************************************************************************)
(* Cell 25ed06a2: filter(category == c).order_by(l2_distance).limit(k).    *)
(***************************************************************************)
\* Variant: the query without its filter clause.
Filter_None(c) == 1..Len(table)

Filter(c) == {j \in 1..Len(table) : table[j].category = c}

Distances(vector) ==
    [j \in 1..Len(table) |-> l2_distance(table[j].embedding, vector)]

FilteredQuery ==
    /\ pc = "query"
    /\ pc' = "done"
    /\ \E t \in QueryTexts, c \in Categories, k \in Limits :
          LET vector == embed_query(t)
          IN  /\ \E r \in OrderByLimit(Distances(vector), Filter(c), k) :
                    result' = [n \in 1..Len(r) |-> table[r[n]]]
              /\ query' = [kind |-> "filtered", vector |-> vector,
                           category |-> c, limit |-> k]
    /\ UNCHANGED <<runs, docs, elements, idx, items_to_add, table, id_seq, error>>

(***************************************************************************)
(* Cell 2ebff5da: the decayed query.                                       *)
(***************************************************************************)
\* decay_rate = 0.10, in hundredths.
decay_rate == 10

HalfDaysPerDay == 1 + 1

Scale == 1000 * 1000

\* func.exp on the argument -x / 1000, x >= 0, in millionths: the series
\* 1 - y + y^2/2 - y^3/6 + y^4/24 - y^5/120 + y^6/720 at y = x / 1000, each
\* term got from the one before it.
ExpNeg(x) ==
    LET t1 == x * 1000
        t2 == (t1 * x) \div 2000
        t3 == (t2 * x) \div 3000
        t4 == (t3 * x) \div 4000
        t5 == (t4 * x) \div 5000
        t6 == (t5 * x) \div 6000
    IN  Scale - t1 + t2 - t3 + t4 - t5 + t6

\* EXTRACT(DAY FROM (NOW() - date)): the whole days of the interval.
age_days(now, date) == (now - date) \div HalfDaysPerDay

\* func.exp(text("-{decay_rate} * EXTRACT(DAY FROM (NOW() - date))")
\*          * Element.embedding.l2_distance(vector)):
\* the product of the three factors is the argument of exp.  Hundredths times
\* days times hundredths counts ten-thousandths; ExpNeg takes thousandths.
decay_score(row, vector, now) ==
    IF row.date = NULL
    THEN NULL
    ELSE Some(ExpNeg((decay_rate * age_days(now, row.date[1])
                        * l2_distance(row.embedding, vector)) \div 10))

\* Variant: ORDER BY decay_score, ascending.
DescKey_Ascending(score) == IF score = NULL THEN -(Scale + 1) ELSE score[1]

\* Variant: NULL sorted after every score.
DescKey_NullsLast(score) == IF score = NULL THEN 1 ELSE -(score[1])

\* ORDER BY decay_score DESC: larger scores first, and NULL before any score
\* (the default of a descending sort in Postgres).
DescKey(score) == IF score = NULL THEN -(Scale + 1) ELSE -(score[1])

Scores(vector, now) ==
    [j \in 1..Len(table) |-> decay_score(table[j], vector, now)]

DecayedQuery ==
    /\ pc = "query"
    /\ pc' = "done"
    /\ \E t \in QueryTexts, k \in Limits, now \in Nows :
          LET vector == embed_query(t)
              score  == Scores(vector, now)
              key    == [j \in 1..Len(table) |-> DescKey(score[j])]
          IN  /\ \E r \in OrderByLimit(key, 1..Len(table), k) :
                    result' = [n \in 1..Len(r) |->
                                 [Element |-> table[r[n]], text |-> table[r[n]].text,
                                  decay_score |-> score[r[n]]]]
              /\ query' = [kind |-> "decayed", vector |-> vector,
                           now |-> now, limit |-> k]
    /\ UNCHANGED <<runs, docs, elements, idx, items_to_add, table, id_seq, error>>

(***************************************************************************)
(* The notebook, run through to its last cell, is run again from the top   *)
(* against the same database.  A run that an exception stopped is not      *)
(* resumed.                                                                *)
(***************************************************************************)
Rerun ==
    /\ pc = "done"
    /\ runs < MaxRuns
    /\ Len(table) + Len(docs) <= MaxRows
    /\ runs' = runs + 1
    /\ pc' = "partition"
    /\ elements' = <<>>
    /\ idx' = 1
    /\ items_to_add' = <<>>
    /\ error' = "none"
    /\ query' = NoQuery
    /\ result' = <<>>
    /\ UNCHANGED <<docs, table, id_seq>>

Next ==
    \/ Partition
    \/ EmbedOne
    \/ EmbedDone
    \/ BuildItems
    \/ AddAllCommit
    \/ FilteredQuery
    \/ DecayedQuery
    \/ Rerun

Spec == Init /\ [][Next]_vars

(***************************************************************************)
(* Vocabulary of the properties.                                           *)
(***************************************************************************)
FilteredDone == pc = "done" /\ query.kind = "filtered"

DecayedDone == pc = "done" /\ query.kind = "decayed"

Min(a, b) == IF a <= b THEN a ELSE b

\* Distance of a row to the vector of the last query.
Dist(row) == l2_distance(row.embedding, query.vector)

\* The Element of the n-th line of the last result.
Returned(n) == IF query.kind = "decayed" THEN result[n].Element ELSE result[n]

\* Lines of the last result that hold the row.
Lines(row) == {n \in 1..Len(result) : Returned(n).id = row.id}

\* The last result lists row b and does not list row a before it.
RankedAfter(a, b) ==
    /\ Lines(b) # {}
    /\ \A n \in Lines(a) : \E m \in Lines(b) : m < n

Age(row) == age_days(query.now, row.date[1])

Rows == {table[j] : j \in 1..Len(table)}

(***************************************************************************)
(* C1.  The filtered nearest-neighbour query returns only Elements whose   *)
(* category equals the filter value.                                       *)
(***************************************************************************)
C1_OnlyFilterCategory ==
    FilteredDone => \A n \in 1..Len(result) : result[n].category = query.category

C1_Witness ==
    /\ FilteredDone
    /\ result # <<>>
    /\ \E row \in Rows : row.category # query.category

(***************************************************************************)
(* C2.  The filtered query returns min(K, number of Elements of category   *)
(* c) distinct stored Elements of that category in ascending L2 distance,  *)
(* and no Element of the category left out is nearer than a returned one.  *)
(* For five Elements of categories NarrativeText, NarrativeText, Other,    *)
(* NarrativeText, Other at distances 0.1, 0.5, 0.05, 0.3, 0.2 the top-2    *)
(* query for NarrativeText returns those at 0.1 then 0.3.                  *)
(***************************************************************************)
ScenarioQuery ==
    /\ FilteredDone
    /\ docs = ScenarioDocs
    /\ query.vector = embed_query("email")
    /\ query.category = "NarrativeText"
    /\ query.limit = 2

C2_TopKAscending ==
    FilteredDone =>
        /\ Len(result) =
             Min(query.limit, Cardinality({row \in Rows : row.category = query.category}))
        /\ \A n \in 1..Len(result) : result[n] \in Rows
        /\ \A m, n \in 1..Len(result) : m < n =>
              /\ result[m].id # result[n].id
              /\ Dist(result[m]) <= Dist(result[n])
        /\ \A row \in Rows :
              row.category = query.category /\ Lines(row) = {} =>
                 \A n \in 1..Len(result) : Dist(row) >= Dist(result[n])
        /\ ScenarioQuery =>
              /\ [n \in 1..Len(result) |-> result[n].text] = <<"s1", "s4">>
              /\ [n \in 1..Len(result) |-> Dist(result[n])] = <<10, 30>>

C2_Witness ==
    /\ ScenarioQuery
    /\ Len(table) = 5
    /\ [j \in 1..5 |-> l2_distance(table[j].embedding, query.vector)]
         = <<10, 50, 5, 30, 20>>
    /\ Len(result) = 2

(***************************************************************************)
(* C3.  The score of the decayed query is the distance multiplied by the   *)
(* decay factor: score = exp(-decay_rate * age_days) * distance.           *)
(***************************************************************************)
\* exp(-decay_rate * age) * distance in millionths: decay_rate * age counts
\* hundredths, ExpNeg takes thousandths, the distance counts hundredths.
DecayTimesDistance(row) ==
    (ExpNeg(decay_rate * Age(row) * 10) * Dist(row)) \div 100

C3_ScoreIsDecayTimesDistance ==
    DecayedDone =>
        \A n \in 1..Len(result) :
            Returned(n).date # NULL =>
                result[n].decay_score = Some(DecayTimesDistance(Returned(n)))

(***************************************************************************)
(* C4.  For a fixed decay rate the score does not increase with age_days   *)
(* at a fixed distance, and does not decrease with the distance at a fixed *)
(* age_days.                                                               *)
(***************************************************************************)
C4_ScoreMonotone ==
    DecayedDone =>
        \A m, n \in 1..Len(result) :
            Returned(m).date # NULL /\ Returned(n).date # NULL =>
                /\ Dist(Returned(m)) = Dist(Returned(n)) /\ Age(Returned(m)) <= Age(Returned(n))
                      => result[m].decay_score[1] >= result[n].decay_score[1]
                /\ Age(Returned(m)) = Age(Returned(n)) /\ Dist(Returned(m)) <= Dist(Returned(n))
                      => result[m].decay_score[1] <= result[n].decay_score[1]

(***************************************************************************)
(* C5.  The decayed query returns at most K Elements in descending         *)
(* decay_score order.  As claimed: of two stored Elements at the same      *)
(* distance with both dates present, the one with the more recent date is  *)
(* never ranked after the older one.                                       *)
(***************************************************************************)
DescendingTopK ==
    /\ Len(result) <= query.limit
    /\ \A m, n \in 1..Len(result) :
          m < n /\ result[m].decay_score # NULL /\ result[n].decay_score # NULL
             => result[m].decay_score[1] >= result[n].decay_score[1]

C5_RecentNeverAfterOlder ==
    DecayedDone =>
        /\ DescendingTopK
        /\ \A a, b \in Rows :
              /\ a.date # NULL
              /\ b.date # NULL
              /\ Dist(a) = Dist(b)
              /\ a.date[1] > b.date[1]
              => ~RankedAfter(a, b)

(***************************************************************************)
(* C5, amended.  The decayed query returns at most K Elements in           *)
(* descending decay_score order; of two stored Elements with both dates    *)
(* present the one with the strictly greater decay_score is never ranked   *)
(* after the other, and so is, at the same distance other than zero, the   *)
(* one whose age in whole days is strictly smaller.                        *)
(***************************************************************************)
C5_YoungerDayNeverAfterOlder ==
    DecayedDone =>
        /\ DescendingTopK
        /\ \A a, b \in Rows :
              /\ a.date # NULL
              /\ b.date # NULL
              /\ decay_score(a, query.vector, query.now)[1]
                    > decay_score(b, query.vector, query.now)[1]
              => ~RankedAfter(a, b)
        /\ \A a, b \in Rows :
              /\ a.date # NULL
              /\ b.date # NULL
              /\ Dist(a) = Dist(b)
              /\ Dist(a) > 0
              /\ Age(a) < Age(b)
              => ~RankedAfter(a, b)

C5_Witness ==
    /\ DecayedDone
    /\ \E a, b \in Rows :
          /\ a.date # NULL
          /\ b.date # NULL
          /\ Dist(a) = Dist(b)
          /\ Dist(a) > 0
          /\ Age(a) < Age(b)
          /\ RankedAfter(b, a)
          /\ Lines(b) # {}

(***************************************************************************)
(* C6.  Persistence is all-or-nothing per run: a step that changes the     *)
(* table is the commit of the whole batch of the run, every Element with   *)
(* its embedding attached, and a run that fails in partitioning, in        *)
(* embedding or in the bulk insert leaves the table as it was.             *)
(***************************************************************************)
WholeBatchAppended ==
    /\ Len(elements) = Len(docs)
    /\ Len(table') = Len(table) + Len(elements)
    /\ SubSeq(table', 1, Len(table)) = table
    /\ \A j \in 1..Len(elements) :
          /\ elements[j].embedding # NULL
          /\ table'[Len(table) + j].text = elements[j].text
          /\ table'[Len(table) + j].category = elements[j].category
          /\ table'[Len(table) + j].date = elements[j].date
          /\ table'[Len(table) + j].embedding = elements[j].embedding[1]

C6_AllOrNothing ==
    [][ /\ pc' = "failed" => table' = table
        /\ table' # table => pc = "insert" /\ pc' = "query" /\ WholeBatchAppended ]_vars

C6_Witness ==
    /\ pc = "failed"
    /\ error = "StoreError"
    /\ Len(items_to_add) = 2
    /\ VectorAccepts(items_to_add[1].embedding)
    /\ ~VectorAccepts(items_to_add[2].embedding)
    /\ table = <<>>

(***************************************************************************)
(* C7.  Every Element in the table has an embedding of ADA_TOKEN_COUNT     *)
(* coordinates; an insert holding a vector of another dimensionality fails *)
(* with a store error and leaves the table unchanged.                      *)
(***************************************************************************)
C7_FixedDimension ==
    /\ [](\A row \in Rows : Len(row.embedding) = ADA_TOKEN_COUNT)
    /\ [][ (/\ pc = "insert"
            /\ \E j \in 1..Len(items_to_add) :
                  Len(items_to_add[j].embedding) # ADA_TOKEN_COUNT)
           => (pc' = "failed" /\ error' = "StoreError" /\ table' = table) ]_vars

C7_Witness ==
    /\ pc = "failed"
    /\ error = "StoreError"
    /\ \E j \in 1..Len(items_to_add) : Len(items_to_add[j].embedding) # ADA_TOKEN_COUNT
    /\ table # <<>>

(***************************************************************************)
(* C8.  As claimed: for a query vector identical to a stored Element's     *)
(* embedding, that Element's distance is 0 and it ranks first in the       *)
(* nearest-neighbour result, and Elements at the same distance appear in   *)
(* insertion order.                                                        *)
(***************************************************************************)
Identical == {row \in Rows : row.embedding = query.vector}

C8_FirstAndStableTies ==
    FilteredDone =>
        /\ \A row \in Identical :
              /\ Dist(row) = 0
              /\ result # <<>>
              /\ Dist(result[1]) = 0
        /\ \A m, n \in 1..Len(result) :
              m < n /\ Dist(result[m]) = Dist(result[n])
                 => result[m].id[1] < result[n].id[1]

(***************************************************************************)
(* C8, amended.  For a query vector identical to a stored Element's        *)
(* embedding, that Element's distance is 0; if its category is the filter  *)
(* value, the first Element returned is at distance 0, and the Element is  *)
(* returned unless every returned Element is at distance 0.  Elements at   *)
(* the same distance appear in an order the query does not determine.      *)
(***************************************************************************)
C8_IdenticalAtZeroFirst ==
    FilteredDone =>
        \A row \in Identical :
            /\ Dist(row) = 0
            /\ row.category = query.category =>
                  /\ result # <<>>
                  /\ Dist(result[1]) = 0
                  /\ \/ Lines(row) # {}
                     \/ \A n \in 1..Len(result) : Dist(result[n]) = 0

C8_Witness ==
    /\ FilteredDone
    /\ \E row \in Identical : row.category = query.category
    /\ \E row \in Rows : row.category = query.category /\ Dist(row) > 0
    /\ Len(result) >= 2
    /\ Dist(result[1]) = Dist(result[2])
    /\ result[1].id[1] > result[2].id[1]

(***************************************************************************)
(* C9.  Ingestion is not idempotent: every committed run of the same n     *)
(* Elements adds n rows that repeat them, so k runs leave k * n rows; the  *)
(* ids of all rows are pairwise distinct, and rows of earlier runs keep    *)
(* their ids.                                                              *)
(***************************************************************************)
RepeatsDocs(t) ==
    \A j \in 1..Len(t) :
        LET d == docs[((j - 1) % Len(docs)) + 1]
        IN  /\ t[j].text = d.text
            /\ t[j].category = d.category
            /\ t[j].date = d.date
            /\ t[j].embedding = embed_query(d.text)

C9_RerunDuplicates ==
    /\ [](/\ \A i, j \in 1..Len(table) : i # j => table[i].id # table[j].id
          /\ \A j \in 1..Len(table) : table[j].id # NULL
          /\ RepeatsDocs(table))
    /\ [][ table' # table =>
             /\ Len(table') = Len(table) + Len(docs)
             /\ \A j \in 1..Len(table) : table'[j] = table[j] ]_vars

C9_Witness ==
    /\ runs = 2
    /\ Len(docs) = 2
    /\ Len(table) = 2 * Len(docs)
    /\ table[1].text = table[3].text
    /\ table[1].id # table[3].id

(***************************************************************************)
(* C10.  The decayed query filters nothing on date: an Element without a   *)
(* date has no decay_score (NULL), and under decay_score DESC it is placed *)
(* ahead of every Element with a score, so it takes a top-K slot whatever  *)
(* its distance to the query vector.                                       *)
(***************************************************************************)
Undated == {row \in Rows : row.date = NULL}

C10_UndatedFirst ==
    DecayedDone =>
        /\ \A n \in 1..Len(result) :
              (Returned(n).date = NULL) <=> (result[n].decay_score = NULL)
        /\ \A m, n \in 1..Len(result) :
              result[m].decay_score # NULL /\ result[n].decay_score = NULL => n < m
        /\ Cardinality({n \in 1..Len(result) : result[n].decay_score = NULL})
             = Min(query.limit, Cardinality(Undated))

C10_Witness ==
    /\ DecayedDone
    /\ Len(result) = query.limit
    /\ \A n \in 1..Len(result) : result[n].decay_score = NULL
    /\ \E row \in Rows :
          row.date # NULL /\ \A n \in 1..Len(result) : Dist(row) < Dist(Returned(n))

====
